---- MODULE Spec2Model ----
(***************************************************************************)
(* Model of the user_lib identity core: UserPassword (salted Argon2id      *)
(* credential), User (aggregate with role associations), RoleName          *)
(* (validated text) and UserId (parse with nil fallback).                  *)
(*                                                                         *)
(* Text is a sequence of characters; a character is a one-element string.  *)
(* Rust's Result and Option are records: Ok(v), Err(e), Some(v), None.     *)
(***************************************************************************)
EXTENDS Integers, Sequences, FiniteSets

VARIABLES
  cred,      \* the last UserPassword::new call: its arguments and outcome
  user,      \* Some(the User value), or None before User::new
  ops,       \* the attachments and detachments applied to the user so far
  verified,  \* the last User::verify_password call: candidate and result
  stored,    \* a UserPassword whose digest text is arbitrary
  checked,   \* the last UserPassword::verify call on cred/stored
  rn_in,     \* the text handed to RoleName
  rn_out,    \* the last RoleName::try_from / from_str call
  id_in,     \* the text handed to UserId::from
  id_out     \* the last UserId::from call

vars == <<cred, user, ops, verified, stored, checked, rn_in, rn_out, id_in, id_out>>

\* ------------------------------------------------------------- Rust values

Ok(v) == [ok |-> TRUE, val |-> v]

Err(e) == [ok |-> FALSE, err |-> e]

is_ok(r) == r.ok

None == [some |-> FALSE]

Some(v) == [some |-> TRUE, val |-> v]

NoCall == [tag |-> "none"]

\* ------------------------------------------------------------- inputs

\* Plaintext secrets offered to UserPassword::new.
Secrets == { <<>>, <<"p","w">>, <<"P","w">>, <<"p","w","x">> }

\* Candidate secrets offered to verify: every secret, every secret followed
\* by "x", and an unrelated one.
Candidates ==
  Secrets \cup { Append(s, "x") : s \in Secrets } \cup { <<"w","r","o","n","g">> }

\* Salts OsRng can produce.
Salts == { "saltA", "saltB", "saltC" }

\* ------------------------------------------------------------- PHC strings

\* What Argon2::default() hashes with.
DefaultAlgorithm == "argon2id"

DefaultVersion == "v=19"

DefaultParams == "m=19456,t=2,p=1"

Argon2Algorithms == { "argon2d", "argon2i", "argon2id" }

Argon2Versions == { "v=16", "v=19" }

VersionTokens == { "v=16", "v=19", "v=7" }

ParamsTokens == { "m=19456,t=2,p=1", "m=8,t=1,p=1", "n=4" }

Argon2Params == { "m=19456,t=2,p=1", "m=8,t=1,p=1" }

\* The Argon2 output, idealised as collision free: it is determined by, and
\* determines, the algorithm, version, cost parameters, salt and password.
Argon2Output(alg, version, params, salt, password) ==
  <<alg, version, params, salt>> \o password

\* argon2.hash_password(password, salt): the PasswordHash value.
HashPassword(password, salt) ==
  [ algorithm |-> DefaultAlgorithm,
    version   |-> Some(DefaultVersion),
    params    |-> DefaultParams,
    salt      |-> Some(salt),
    hash      |-> Some(Argon2Output(DefaultAlgorithm, DefaultVersion,
                                    DefaultParams, salt, password)) ]

\* PasswordHash::to_string: the PHC string, as its '$'-separated segments
\* (the first is the text before the first '$'); a segment is a sequence of
\* tokens.
ToString(h) ==
  << <<>>, <<h.algorithm>> >>
    \o (IF h.version.some THEN << <<h.version.val>> >> ELSE <<>>)
    \o (IF h.params # "" THEN << <<h.params>> >> ELSE <<>>)
    \o (IF h.salt.some THEN << <<h.salt.val>> >> ELSE <<>>)
    \o (IF h.hash.some THEN << h.hash.val >> ELSE <<>>)

IsToken(seg) == Len(seg) = 1

\* PasswordHash::new(text): parse the segments back into a PasswordHash.
PasswordHashNew(text) ==
  IF Len(text) < 2 \/ text[1] # <<>> \/ ~IsToken(text[2]) THEN Err("PhcStringField")
  ELSE
    LET hasVersion == Len(text) >= 3 /\ IsToken(text[3]) /\ text[3][1] \in VersionTokens
        afterVersion == IF hasVersion THEN 4 ELSE 3
        hasParams == Len(text) >= afterVersion /\ IsToken(text[afterVersion])
                       /\ text[afterVersion][1] \in ParamsTokens
        afterParams == IF hasParams THEN afterVersion + 1 ELSE afterVersion
        hasSalt == Len(text) >= afterParams
        hasHash == Len(text) >= afterParams + 1
    IN IF hasSalt /\ ~IsToken(text[afterParams]) THEN Err("SaltInvalid")
       ELSE IF hasHash /\ text[afterParams + 1] = <<>> THEN Err("OutputSize")
       ELSE IF Len(text) > afterParams + 1 THEN Err("PhcStringTrailingData")
       ELSE Ok([ algorithm |-> text[2][1],
                 version   |-> IF hasVersion THEN Some(text[3][1]) ELSE None,
                 params    |-> IF hasParams THEN text[afterVersion][1] ELSE "",
                 salt      |-> IF hasSalt THEN Some(text[afterParams][1]) ELSE None,
                 hash      |-> IF hasHash THEN Some(text[afterParams + 1]) ELSE None ])

\* Argon2::default().verify_password(password, &parsed_hash): recompute the
\* output from the embedded algorithm, version, parameters and salt and compare.
Argon2VerifyPassword(password, h) ==
  IF ~(h.salt.some /\ h.hash.some) THEN Err("Password")
  ELSE IF h.algorithm \notin Argon2Algorithms THEN Err("Algorithm")
  ELSE IF h.version.some /\ h.version.val \notin Argon2Versions THEN Err("Version")
  ELSE IF h.params # "" /\ h.params \notin Argon2Params THEN Err("ParamNameInvalid")
  ELSE LET version == IF h.version.some THEN h.version.val ELSE DefaultVersion
           params == IF h.params # "" THEN h.params ELSE DefaultParams
       IN IF Argon2Output(h.algorithm, version, params, h.salt.val, password) = h.hash.val
          THEN Ok(TRUE)
          ELSE Err("Password")

\* ------------------------------------------------------------- UserPassword

\* ASCII lower-casing of a character and of a text.
LowerChar(ch) == IF ch = "P" THEN "p" ELSE ch

Lower(text) == [ i \in 1..Len(text) |-> LowerChar(text[i]) ]

\* UserPassword::new comparing without regard to case.
UserPasswordNewIgnoreCase(password, confirm_password, rng) ==
  IF Lower(password) # Lower(confirm_password)
  THEN [ result |-> Err("PasswordMismatch"), drew_salt |-> FALSE, hashed |-> FALSE ]
  ELSE [ result |-> Ok(ToString(HashPassword(password, rng))),
         drew_salt |-> TRUE, hashed |-> TRUE ]

\* UserPassword::new(password, confirm_password); rng is the salt OsRng
\* yields if it is consulted. The outcome carries whether the salt was drawn
\* and whether the hash was computed. hash_password with the default
\* parameters and a generated salt returns Ok for the secrets considered, so
\* the exit(1) arm is not taken.
UserPasswordNew(password, confirm_password, rng) ==
  IF password # confirm_password
  THEN [ result |-> Err("PasswordMismatch"), drew_salt |-> FALSE, hashed |-> FALSE ]
  ELSE [ result |-> Ok(ToString(HashPassword(password, rng))),
         drew_salt |-> TRUE, hashed |-> TRUE ]

\* UserPassword::verify reporting only that the digest parsed.
UserPasswordVerifyParsedOnly(self, password) ==
  LET parsed == PasswordHashNew(self)
  IN IF parsed.ok THEN Ok(is_ok(parsed)) ELSE Ok(FALSE)

\* UserPassword::verify propagating the parse error with `?`.
UserPasswordVerifyPropagates(self, password) ==
  LET parsed == PasswordHashNew(self)
  IN IF parsed.ok
     THEN Ok(is_ok(Argon2VerifyPassword(password, parsed.val)))
     ELSE Err(parsed.err)

\* UserPassword::verify(&self, password) -> Result<bool, _>; self is the
\* stored digest text.
UserPasswordVerify(self, password) ==
  LET parsed == PasswordHashNew(self)
  IN IF parsed.ok
     THEN Ok(is_ok(Argon2VerifyPassword(password, parsed.val)))
     ELSE Ok(FALSE)

\* ------------------------------------------------------------- User

\* Bound on the number of role operations applied to one user.
MaxOps == 3

\* A Uuid, scaled from 32 hexadecimal digits to two: the sequence of its
\* digits' values. Values Uuid::new_v4() can produce for a user and for a
\* role (never all-zero: the version digit is set).
UserIds == { <<0, 15>>, <<15, 0>> }

RoleIds == { <<0, 15>>, <<15, 15>> }

\* Values chrono::Local::now() can produce.
Clock == { 1, 2 }

UserNames == { <<"b","o","b">>, <<"a","l">> }

\* User::new stamping the update time at construction.
UserNewStamped(name, password, id, now) ==
  Ok([ id         |-> id,
       name       |-> name,
       password   |-> password,
       created_at |-> now,
       updated_at |-> Some(now),
       roles      |-> <<>> ])

\* User::new(name, password); id and now are what UserId::new() and
\* Local::now() yield.
UserNew(name, password, id, now) ==
  Ok([ id         |-> id,
       name       |-> name,
       password   |-> password,
       created_at |-> now,
       updated_at |-> None,
       roles      |-> <<>> ])

\* User::verify_password(&self, password) -> bool
verify_password(self, password) ==
  is_ok(UserPasswordVerify(self.password, password))

\* User::with_role building the association from the role alone.
with_role_wrong_owner(self, role_id) ==
  [ self EXCEPT !.roles = Append(@, [ user_id |-> role_id, role_id |-> role_id ]) ]

\* User::with_role(mut self, role_id) -> Self
with_role(self, role_id) ==
  [ self EXCEPT !.roles = Append(@, [ user_id |-> self.id, role_id |-> role_id ]) ]

\* User::add_role skipping a role the user already holds.
add_role_dedup(self, role_id) ==
  IF \E i \in 1..Len(self.roles) : self.roles[i].role_id = role_id
  THEN self
  ELSE [ self EXCEPT !.roles = Append(@, [ user_id |-> self.id, role_id |-> role_id ]) ]

\* User::add_role(&mut self, role_id)
add_role(self, role_id) ==
  [ self EXCEPT !.roles = Append(@, [ user_id |-> self.id, role_id |-> role_id ]) ]

\* User::remove_role removing the first match only.
remove_role_first(self, role_id) ==
  LET hits == { i \in 1..Len(self.roles) : self.roles[i].role_id = role_id }
  IN IF hits = {} THEN self
     ELSE LET first == CHOOSE i \in hits : \A j \in hits : i <= j
          IN [ self EXCEPT !.roles =
                 SubSeq(@, 1, first - 1) \o SubSeq(@, first + 1, Len(@)) ]

\* User::remove_role(&mut self, role_id): Vec::retain keeps, in order, the
\* elements the closure accepts.
remove_role(self, role_id) ==
  [ self EXCEPT !.roles = SelectSeq(@, LAMBDA r : r.role_id # role_id) ]

\* ------------------------------------------------------------- actions

\* A caller builds a credential (before the user exists).
PasswordNew(password, confirm_password) ==
  /\ ~user.some
  /\ \E rng \in Salts :
       cred' = [ tag |-> "called", password |-> password,
                 confirm_password |-> confirm_password,
                 out |-> UserPasswordNew(password, confirm_password, rng) ]
  /\ checked' = NoCall
  /\ UNCHANGED <<user, ops, verified, stored, rn_in, rn_out, id_in, id_out>>

\* A caller checks a candidate against the credential just built.
CredVerify(candidate) ==
  /\ cred.tag = "called"
  /\ cred.out.result.ok
  /\ checked' = [ tag |-> "called", candidate |-> candidate,
                  result |-> UserPasswordVerify(cred.out.result.val, candidate) ]
  /\ UNCHANGED <<cred, user, ops, verified, stored, rn_in, rn_out, id_in, id_out>>

\* A caller checks a candidate against a credential holding any digest text.
StoredVerify(candidate) ==
  /\ stored.some
  /\ checked' = [ tag |-> "called", candidate |-> candidate,
                  result |-> UserPasswordVerify(stored.val, candidate) ]
  /\ UNCHANGED <<cred, user, ops, verified, stored, rn_in, rn_out, id_in, id_out>>

\* User::new with the credential just built.
NewUser(name, id, now) ==
  /\ ~user.some
  /\ cred.tag = "called"
  /\ cred.out.result.ok
  /\ LET r == UserNew(name, cred.out.result.val, id, now)
     IN /\ r.ok
        /\ user' = Some(r.val)
  /\ UNCHANGED <<cred, ops, verified, stored, checked, rn_in, rn_out, id_in, id_out>>

WithRole(role_id) ==
  /\ user.some
  /\ Len(ops) < MaxOps
  /\ user' = Some(with_role(user.val, role_id))
  /\ ops' = Append(ops, [ op |-> "attach", role_id |-> role_id ])
  /\ UNCHANGED <<cred, verified, stored, checked, rn_in, rn_out, id_in, id_out>>

AddRole(role_id) ==
  /\ user.some
  /\ Len(ops) < MaxOps
  /\ user' = Some(add_role(user.val, role_id))
  /\ ops' = Append(ops, [ op |-> "attach", role_id |-> role_id ])
  /\ UNCHANGED <<cred, verified, stored, checked, rn_in, rn_out, id_in, id_out>>

RemoveRole(role_id) ==
  /\ user.some
  /\ Len(ops) < MaxOps
  /\ user' = Some(remove_role(user.val, role_id))
  /\ ops' = Append(ops, [ op |-> "detach", role_id |-> role_id ])
  /\ UNCHANGED <<cred, verified, stored, checked, rn_in, rn_out, id_in, id_out>>

VerifyPassword(candidate) ==
  /\ user.some
  /\ verified' = [ tag |-> "called", candidate |-> candidate,
                   result |-> verify_password(user.val, candidate) ]
  /\ UNCHANGED <<cred, user, ops, stored, checked, rn_in, rn_out, id_in, id_out>>

\* ------------------------------------------------------------- RoleName

\* Bound on the number of characters of a role-name text.
MaxNameChars == 4

\* Characters of a role-name text: an ASCII letter, U+00E9 (two bytes in
\* UTF-8) and U+65E5 (three bytes in UTF-8).
NameChars == { "a", "U+00E9", "U+65E5" }

\* The number of bytes of a character's UTF-8 encoding.
Utf8Len(ch) == CASE ch = "a" -> 1 [] ch = "U+00E9" -> 2 [] ch = "U+65E5" -> 3

\* str::len(): the length in bytes.
RECURSIVE str_len(_)
str_len(text) ==
  IF text = <<>> THEN 0 ELSE Utf8Len(Head(text)) + str_len(Tail(text))

\* str::is_empty()
is_empty(text) == str_len(text) = 0

\* impl TryFrom<&str> for RoleName
RoleNameTryFrom(value) ==
  IF is_empty(value)
  THEN Err("Role name cannot be empty")
  ELSE IF str_len(value) < 3
  THEN Err("Role name must be at least 3 characters long")
  ELSE Ok(value)

\* impl FromStr for RoleName
RoleNameFromStr(s) == RoleNameTryFrom(s)

\* impl Display for RoleName: writes the stored text.
RoleNameDisplay(self) == self

\* A caller types one more character of the role name.
RoleNameType(ch) ==
  /\ Len(rn_in) < MaxNameChars
  /\ rn_in' = Append(rn_in, ch)
  /\ rn_out' = NoCall
  /\ UNCHANGED <<cred, user, ops, verified, stored, checked, id_in, id_out>>

RoleNameTry ==
  /\ rn_out' = [ tag |-> "called", via |-> "try_from", result |-> RoleNameTryFrom(rn_in) ]
  /\ UNCHANGED <<cred, user, ops, verified, stored, checked, rn_in, id_in, id_out>>

RoleNameParse ==
  /\ rn_out' = [ tag |-> "called", via |-> "from_str", result |-> RoleNameFromStr(rn_in) ]
  /\ UNCHANGED <<cred, user, ops, verified, stored, checked, rn_in, id_in, id_out>>

\* ------------------------------------------------------------- UserId

\* Bound on the number of tokens of an identifier text.
MaxIdTokens == 5

\* Tokens of an identifier text: hexadecimal digits in both cases, a letter
\* that is no hexadecimal digit, the hyphen, the braces and the URN prefix.
IdTokens == { "0", "f", "F", "g", "-", "{", "}", "urn:uuid:" }

\* The hyphenated form, scaled from 8-4-4-4-12 digits to 1-1: "h" stands for
\* a hexadecimal digit.
HyphenatedShape == <<"h", "-", "h">>

SimpleShape == SelectSeq(HyphenatedShape, LAMBDA t : t = "h")

IsHexDigit(t) == t \in { "0", "f", "F" }

HexValue(t) == IF t = "0" THEN 0 ELSE 15

\* Uuid::nil()
UuidNil == [ i \in 1..Len(SimpleShape) |-> 0 ]

\* The digits of a text that fits the shape, or an error.
ParseShape(text, shape) ==
  IF Len(text) # Len(shape) THEN Err("InvalidLength")
  ELSE IF \E i \in 1..Len(shape) :
            \/ shape[i] = "h" /\ ~IsHexDigit(text[i])
            \/ shape[i] # "h" /\ text[i] # shape[i]
  THEN Err("InvalidCharacter")
  ELSE LET digits == SelectSeq(text, IsHexDigit)
       IN Ok([ i \in 1..Len(digits) |-> HexValue(digits[i]) ])

\* uuid::Uuid::parse_str: the form is chosen by the length of the text:
\* simple, hyphenated, braced hyphenated, URN hyphenated.
UuidParseStr(text) ==
  IF Len(text) = Len(SimpleShape) THEN ParseShape(text, SimpleShape)
  ELSE IF Len(text) = Len(HyphenatedShape) THEN ParseShape(text, HyphenatedShape)
  ELSE IF Len(text) = Len(HyphenatedShape) + 2
            /\ Head(text) = "{" /\ text[Len(text)] = "}"
  THEN ParseShape(SubSeq(text, 2, Len(text) - 1), HyphenatedShape)
  ELSE IF Len(text) = Len(HyphenatedShape) + 1 /\ Head(text) = "urn:uuid:"
  THEN ParseShape(Tail(text), HyphenatedShape)
  ELSE Err("InvalidLength")

\* Result::unwrap_or_default() on a Result<Uuid, _>
unwrap_or_default(r) == IF r.ok THEN r.val ELSE UuidNil

\* impl Default for UserId
UserIdDefault == UuidNil

\* UserId::from falling back to the all-ones identifier.
UserIdFromMax(value) ==
  LET r == UuidParseStr(value)
  IN IF r.ok THEN r.val ELSE [ i \in 1..Len(SimpleShape) |-> 15 ]

\* impl From<String> for UserId
UserIdFrom(value) == unwrap_or_default(UuidParseStr(value))

HexLower(n) == IF n = 0 THEN "0" ELSE "f"

\* impl Display for UserId: the hyphenated form in lower case.
UserIdDisplay(self) ==
  LET place(i) == Cardinality({ j \in 1..i : HyphenatedShape[j] = "h" })
  IN [ i \in 1..Len(HyphenatedShape) |->
         IF HyphenatedShape[i] = "h" THEN HexLower(self[place(i)])
         ELSE HyphenatedShape[i] ]

\* A caller types one more token of the identifier text.
UserIdType(t) ==
  /\ Len(id_in) < MaxIdTokens
  /\ id_in' = Append(id_in, t)
  /\ id_out' = NoCall
  /\ UNCHANGED <<cred, user, ops, verified, stored, checked, rn_in, rn_out>>

UserIdParse ==
  /\ id_out' = [ tag |-> "called", result |-> UserIdFrom(id_in) ]
  /\ UNCHANGED <<cred, user, ops, verified, stored, checked, rn_in, rn_out, id_in>>

\* ------------------------------------------------------------- specifications

Init ==
  /\ cred = NoCall
  /\ user = None
  /\ ops = <<>>
  /\ verified = NoCall
  /\ stored = None
  /\ checked = NoCall
  /\ rn_in = <<>>
  /\ rn_out = NoCall
  /\ id_in = <<>>
  /\ id_out = NoCall

\* The life of one user: credential, construction, role operations, logins.
Next ==
  \/ \E p \in Secrets, c \in Secrets : PasswordNew(p, c)
  \/ \E name \in UserNames, id \in UserIds, now \in Clock : NewUser(name, id, now)
  \/ \E r \in RoleIds : WithRole(r)
  \/ \E r \in RoleIds : AddRole(r)
  \/ \E r \in RoleIds : RemoveRole(r)
  \/ \E c \in Candidates : VerifyPassword(c)

Spec == Init /\ [][Next]_vars

\* Credential creation and verification on their own.
NextCred ==
  \/ \E p \in Secrets, c \in Secrets : PasswordNew(p, c)
  \/ \E c \in Candidates : CredVerify(c)

SpecCred == Init /\ [][NextCred]_vars

\* Digest texts a UserPassword can hold that no PasswordHash::new accepts:
\* the empty text, text without '$', text before the first '$', an empty
\* identifier, trailing data, an empty hash field.
MalformedDigests ==
  { << <<>> >>,
    << <<"garbage">> >>,
    << <<"x">>, <<"argon2id">>, <<"v=19">>, <<"m=19456,t=2,p=1">>, <<"saltA">>,
       Argon2Output("argon2id", "v=19", "m=19456,t=2,p=1", "saltA", <<"p","w">>) >>,
    << <<>>, <<>> >>,
    << <<>>, <<"argon2id">>, <<"v=19">>, <<"m=19456,t=2,p=1">>, <<"saltA">>,
       Argon2Output("argon2id", "v=19", "m=19456,t=2,p=1", "saltA", <<"p","w">>),
       <<"extra">> >>,
    << <<>>, <<"argon2id">>, <<"v=19">>, <<"m=19456,t=2,p=1">>, <<"saltA">>, <<>> >> }

\* Digest texts PasswordHash::new accepts that are no Argon2 digest of any
\* secret: another algorithm, an unknown version, no hash field, no salt.
ForeignDigests ==
  { << <<>>, <<"scrypt">>, <<"n=4">>, <<"saltA">>, <<"h">> >>,
    << <<>>, <<"argon2id">>, <<"v=7">>, <<"m=19456,t=2,p=1">>, <<"saltA">>,
       Argon2Output("argon2id", "v=7", "m=19456,t=2,p=1", "saltA", <<"p","w">>) >>,
    << <<>>, <<"argon2id">>, <<"v=19">>, <<"m=19456,t=2,p=1">>, <<"saltA">> >>,
    << <<>>, <<"argon2id">> >> }

\* Digest texts UserPassword::new produces, and Argon2 digests under older
\* cost parameters and version.
CreatedDigests ==
  { UserPasswordNew(s, s, salt).result.val : s \in Secrets, salt \in Salts }
    \cup { << <<>>, <<"argon2i">>, <<"v=16">>, <<"m=8,t=1,p=1">>, <<"saltB">>,
              Argon2Output("argon2i", "v=16", "m=8,t=1,p=1", "saltB", <<"p","w">>) >> }

InitDigest ==
  /\ cred = NoCall
  /\ user = None
  /\ ops = <<>>
  /\ verified = NoCall
  /\ stored \in { Some(d) : d \in MalformedDigests \cup ForeignDigests \cup CreatedDigests }
  /\ checked = NoCall
  /\ rn_in = <<>>
  /\ rn_out = NoCall
  /\ id_in = <<>>
  /\ id_out = NoCall

\* Verification against a credential holding any digest text.
NextDigest == \E c \in Candidates : StoredVerify(c)

SpecDigest == InitDigest /\ [][NextDigest]_vars

\* RoleName construction from typed text.
NextRoleName ==
  \/ \E ch \in NameChars : RoleNameType(ch)
  \/ RoleNameTry
  \/ RoleNameParse

SpecRoleName == Init /\ [][NextRoleName]_vars

\* UserId parsing from typed text.
NextUserId ==
  \/ \E t \in IdTokens : UserIdType(t)
  \/ UserIdParse

SpecUserId == Init /\ [][NextUserId]_vars

\* ------------------------------------------------------------- properties

Attach(r) == [ op |-> "attach", role_id |-> r ]

Detach(r) == [ op |-> "detach", role_id |-> r ]

\* The position, among the indices in keep, of index i (1 for the smallest).
Rank(keep, i) == Cardinality({ j \in keep : j <= i })

\* C1: for a User built from Credential::create(s, s), after any sequence of
\* role operations, verify_password(c) is true when c = s and false when
\* c # s, and equals the boolean the credential's own verification yields.
C1_VerifyPasswordDecides ==
  verified.tag = "called" =>
    /\ verified.result = (verified.candidate = cred.password)
    /\ verified.result = UserPasswordVerify(user.val.password, verified.candidate).val

\* C2: creation with (s, s) succeeds; on the credential created from s,
\* verify(c) yields true exactly when c = s (so verify(s) is true and
\* verify(s + "x") is false), whichever salt was drawn.
C2_VerifyAcceptsExactlyTheSecret ==
  /\ (cred.tag = "called" /\ cred.password = cred.confirm_password) =>
        cred.out.result.ok
  /\ checked.tag = "called" =>
        /\ checked.result.ok
        /\ checked.result.val = (checked.candidate = cred.password)

\* C2 witness: verify(s + "x") has been called on a credential created from
\* s and yielded false.
C2_Witness ==
  /\ checked.tag = "called"
  /\ checked.candidate = Append(cred.password, "x")
  /\ checked.result.val = FALSE

\* C3: creation with (s1, s2) fails with the mismatch error exactly when
\* s1 # s2 (exact, case-sensitive), and then draws no salt, computes no hash
\* and yields no credential.
C3_MismatchExactlyWhenDifferent ==
  cred.tag = "called" =>
    IF cred.password # cred.confirm_password
    THEN /\ ~cred.out.result.ok
         /\ cred.out.result.err = "PasswordMismatch"
         /\ ~cred.out.drew_salt
         /\ ~cred.out.hashed
    ELSE cred.out.result.ok

\* C3 witness: creation was called with secrets that differ only in case and
\* failed.
C3_Witness ==
  /\ cred.tag = "called"
  /\ cred.password = <<"p","w">>
  /\ cred.confirm_password = <<"P","w">>
  /\ ~cred.out.result.ok

\* C4: verification never yields an error: for every stored digest and
\* candidate it yields a boolean, and false whenever the digest cannot be
\* parsed, which is the same outcome as a secret that does not match.
C4_VerifyNeverErrors ==
  checked.tag = "called" =>
    /\ checked.result.ok
    /\ checked.result.val \in BOOLEAN
    /\ (stored.val \in MalformedDigests \/ ~PasswordHashNew(stored.val).ok) =>
          checked.result = Ok(FALSE)

\* C4 witness: verify has been called on a digest that does not parse and
\* yielded false.
C4_Witness ==
  /\ checked.tag = "called"
  /\ stored.val \in MalformedDigests
  /\ ~PasswordHashNew(stored.val).ok
  /\ checked.result = Ok(FALSE)

\* C5: detach_role(r) removes every association with role r and keeps the
\* others in their order; with no match the collection is unchanged; on a
\* fresh user, attaching R and then detaching R leaves the collection empty.
C5_DetachRemovesEveryMatch ==
  [][ \A r \in RoleIds :
        RemoveRole(r) =>
          LET old == user.val.roles
              new == user'.val.roles
              keep == { i \in 1..Len(old) : old[i].role_id # r }
          IN /\ Len(new) = Cardinality(keep)
             /\ \A i \in keep : new[Rank(keep, i)] = old[i]
             /\ (keep = 1..Len(old) => new = old)
             /\ (ops' = <<Attach(r), Detach(r)>> => new = <<>>) ]_vars

\* C5 witness: a role attached twice has been detached and no association
\* is left.
C5_Witness ==
  /\ user.some
  /\ \E r \in RoleIds : ops = <<Attach(r), Attach(r), Detach(r)>>
  /\ user.val.roles = <<>>

\* C6: attach_role(r), in the builder form and in the in-place form, appends
\* exactly one association (the user's id, r) and leaves the earlier ones
\* alone; the length grows by one on every attach, so attaching a role twice
\* to a fresh user gives two associations; both forms give the same result.
C6_AttachAppendsOne ==
  [][ \A r \in RoleIds :
        (WithRole(r) \/ AddRole(r)) =>
          LET old == user.val.roles
              new == user'.val.roles
          IN /\ Len(new) = Len(old) + 1
             /\ SubSeq(new, 1, Len(old)) = old
             /\ new[Len(new)] = [ user_id |-> user.val.id, role_id |-> r ]
             /\ (ops' = <<Attach(r), Attach(r)>> => Len(new) = 2)
             /\ with_role(user.val, r).roles = add_role(user.val, r).roles ]_vars

\* C6 witness: the same role has been attached twice to a fresh user, which
\* holds two associations.
C6_Witness ==
  /\ user.some
  /\ \E r \in RoleIds : ops = <<Attach(r), Attach(r)>>
  /\ Len(user.val.roles) = 2

\* C8: User construction always succeeds and gives an empty collection and
\* no update time; afterwards the update time stays absent and the id, the
\* creation time, the name and the credential keep their construction values.
C8_ConstructionValuesKept ==
  [][ /\ (cred.tag = "called" /\ cred.out.result.ok) =>
            \A name \in UserNames, id \in UserIds, now \in Clock :
              UserNew(name, cred.out.result.val, id, now).ok
      /\ \A name \in UserNames, id \in UserIds, now \in Clock :
            NewUser(name, id, now) =>
              /\ user'.val.id = id
              /\ user'.val.name = name
              /\ user'.val.created_at = now
              /\ user'.val.password = cred.out.result.val
              /\ user'.val.roles = <<>>
              /\ ~user'.val.updated_at.some
      /\ user.some =>
            /\ user'.some
            /\ user'.val.id = user.val.id
            /\ user'.val.name = user.val.name
            /\ user'.val.created_at = user.val.created_at
            /\ user'.val.password = user.val.password
            /\ ~user'.val.updated_at.some ]_vars

\* C8 witness: a user has had roles attached and detached and a password
\* verified, and has no update time.
C8_Witness ==
  /\ user.some
  /\ \E i \in 1..Len(ops) : ops[i].op = "attach"
  /\ \E i \in 1..Len(ops) : ops[i].op = "detach"
  /\ verified.tag = "called"
  /\ ~user.val.updated_at.some

\* C10: every association of a user carries that user's id, and the
\* collection lists, in attachment order, the attachments not detached since.
C10_AssociationsOwnedAndOrdered ==
  user.some =>
    LET roles == user.val.roles
        alive == { i \in 1..Len(ops) :
                     /\ ops[i].op = "attach"
                     /\ ~\E j \in (i + 1)..Len(ops) :
                           ops[j].op = "detach" /\ ops[j].role_id = ops[i].role_id }
    IN /\ \A i \in 1..Len(roles) : roles[i].user_id = user.val.id
       /\ Len(roles) = Cardinality(alive)
       /\ \A i \in alive : roles[Rank(alive, i)].role_id = ops[i].role_id

\* C10 witness: two roles were attached and the first detached; the second
\* is the one association left, and it carries the user's id.
C10_Witness ==
  /\ user.some
  /\ \E a \in RoleIds, b \in RoleIds :
       /\ a # b
       /\ ops = <<Attach(a), Attach(b), Detach(a)>>
       /\ user.val.roles = << [ user_id |-> user.val.id, role_id |-> b ] >>

\* C7: RoleName construction from t fails as empty when t has length 0,
\* fails as too short when t has length 1 or 2, and succeeds for every t of
\* length >= 3 with the name rendering as t; every RoleName has length >= 3.
\* Length counts the characters of t.
C7_ClassifiedByCharacterCount ==
  rn_out.tag = "called" =>
    /\ Len(rn_in) = 0 =>
          ~rn_out.result.ok /\ rn_out.result.err = "Role name cannot be empty"
    /\ Len(rn_in) \in { 1, 2 } =>
          /\ ~rn_out.result.ok
          /\ rn_out.result.err = "Role name must be at least 3 characters long"
    /\ Len(rn_in) >= 3 =>
          rn_out.result.ok /\ RoleNameDisplay(rn_out.result.val) = rn_in
    /\ rn_out.result.ok => Len(rn_out.result.val) >= 3

\* The identifiers and the texts uuid accepts for them: simple, hyphenated,
\* braced and URN, with digits in either case.
Uuids == [ 1..2 -> { 0, 15 } ]

DigitTexts(n) == IF n = 0 THEN { "0" } ELSE { "f", "F" }

AcceptedTexts(v) ==
  UNION { { <<a, b>>, <<a, "-", b>>, <<"{", a, "-", b, "}">>, <<"urn:uuid:", a, "-", b>> } :
          a \in DigitTexts(v[1]), b \in DigitTexts(v[2]) }

\* C9: identifier parsing never fails: the canonical text of an identifier
\* yields that identifier, and every malformed text yields the nil
\* identifier, which is the default one; so a malformed text and the text of
\* the nil identifier parse to the same value.
C9_ParseFallsBackToNil ==
  id_out.tag = "called" =>
    /\ id_out.result \in Uuids
    /\ \A v \in Uuids :
         /\ id_in = UserIdDisplay(v) => id_out.result = v
         /\ id_in \in AcceptedTexts(v) => id_out.result = v
    /\ (\A v \in Uuids : id_in \notin AcceptedTexts(v)) =>
         /\ id_out.result = <<0, 0>>
         /\ id_out.result = UserIdDefault
         /\ id_out.result = UserIdFrom(<<"0", "-", "0">>)

\* C9 witness: a text with a letter that is no hexadecimal digit has been
\* parsed and gave the nil identifier.
C9_Witness ==
  /\ id_out.tag = "called"
  /\ id_in = <<"g", "-", "0">>
  /\ id_out.result = <<0, 0>>

====
